---------------------------- MODULE Spec2Model ----------------------------
(***************************************************************************)
(* A model of src/facebook.py: the Graph API client (GraphAPI.request,     *)
(* get_object, get_connection) and the wall / like analysis of class User  *)
(* (intersect, filter_wall).                                               *)
(*                                                                         *)
(* Python values are tagged records [t |-> <type name>, v |-> <payload>],  *)
(* so that isinstance, truthiness and == can be modelled as Python         *)
(* computes them.  A str is a sequence of one-character strings, a dict a  *)
(* function from its keys, a list a sequence, a set a set.                 *)
(*                                                                         *)
(* The method bodies are modelled as written.  The name datetime, which    *)
(* filter_wall uses and the file never imports, is read as the standard    *)
(* datetime module.                                                        *)
(***************************************************************************)
EXTENDS Integers, Sequences, FiniteSets, TLC

VARIABLES
    access_token,   \* GraphAPI.access_token
    io,             \* the client call in progress or completed, and its effects
    likes,          \* self.likes of the User that intersect is called on
    friend_likes,   \* friend.likes of the User passed to intersect
    common,         \* what intersect returned, per direction of the call
    wall,           \* self.wall of the User that filter_wall is called on
    filtered        \* the filter_wall call made and what it returned

vars == <<access_token, io, likes, friend_likes, common, wall, filtered>>

---------------------------------------------------------------------------
(* Bounds of the model.                                                    *)

MaxIdLen == 2       \* characters in an object id given as a str
MaxIds == 2         \* ids in a list or set given to get_object
MaxIntId == 2       \* integer object ids are 1..MaxIntId
MaxLikeId == 3      \* like ids are 1..MaxLikeId
MaxLikes == 2       \* entries in a profile's list of likes
MaxWall == 2        \* posts on a wall
MaxTime == 2        \* created_time values are 1..MaxTime
MaxData == 1        \* entries in a post's likes data or comments data

---------------------------------------------------------------------------
(* Python values.                                                          *)

None == [t |-> "NoneType"]
PyBool(b) == [t |-> "bool", v |-> b]
PyInt(n) == [t |-> "int", v |-> n]
PyStr(s) == [t |-> "str", v |-> s]
PyList(s) == [t |-> "list", v |-> s]
PySet(S) == [t |-> "set", v |-> S]
PyTuple(s) == [t |-> "tuple", v |-> s]
PyDict(f) == [t |-> "dict", v |-> f]

EmptyMap == [k \in {} |-> None]

\* bool(x), as `if x:` and `not x` compute it
Truthy(x) ==
    CASE x.t = "NoneType" -> FALSE
      [] x.t = "bool" -> x.v
      [] x.t = "int" -> x.v # 0
      [] x.t \in {"str", "list", "tuple"} -> Len(x.v) # 0
      [] x.t = "set" -> x.v # {}
      [] x.t = "dict" -> DOMAIN x.v # {}
      [] OTHER -> TRUE

\* isinstance(x, cls); bool is a subclass of int
isinstance(x, cls) ==
    \/ x.t = cls
    \/ cls = "int" /\ x.t = "bool"

\* d[k] = x on a dict
SetItem(d, k, x) ==
    PyDict([key \in DOMAIN d.v \cup {k} |-> IF key = k THEN x ELSE d.v[key]])

\* the outcome of a call: a returned value or a raised exception with its args
Return(x) == [kind |-> "return", exc |-> "", value |-> x]
Raise(e, a) == [kind |-> "raise", exc |-> e, value |-> PyTuple(a)]

---------------------------------------------------------------------------
(* String literals of the source and of the remote service.                *)

Comma == ","
BaseUrl == <<"h","t","t","p","s",":","/","/","g","r","a","p","h",".",
             "f","a","c","e","b","o","o","k",".","c","o","m","/">>
InvalidIdType == <<"I","n","v","a","l","i","d"," ","i","d"," ","t","y","p","e",".">>

RECURSIVE JoinSeq(_, _)
\* sep.join(ids) for a sequence of str payloads
JoinSeq(sep, ids) ==
    IF Len(ids) = 0 THEN <<>>
    ELSE IF Len(ids) = 1 THEN ids[1]
    ELSE ids[1] \o <<sep>> \o JoinSeq(sep, Tail(ids))


---------------------------------------------------------------------------
(* GraphAPI.request                                                        *)

\* line 119: a missing or empty args is replaced by a fresh dict
default_args(args) == IF ~Truthy(args) THEN PyDict(EmptyMap) ELSE args

\* attach_token with `if post_args:` for `if post_args is not None:`
attach_token_if_body_nonempty(token, args, post_args) ==
    IF Truthy(token)
    THEN IF Truthy(post_args)
         THEN [query |-> args,
               body |-> SetItem(post_args, "access_token", token)]
         ELSE [query |-> SetItem(args, "access_token", token),
               body |-> post_args]
    ELSE [query |-> args, body |-> post_args]

\* lines 120-124: where the access token is put
attach_token(token, args, post_args) ==
    IF Truthy(token)
    THEN IF post_args.t # "NoneType"
         THEN [query |-> args,
               body |-> SetItem(post_args, "access_token", token)]
         ELSE [query |-> SetItem(args, "access_token", token),
               body |-> post_args]
    ELSE [query |-> args, body |-> post_args]

\* lines 125-127: the call of urllib.urlopen.  The two maps are recorded as
\* they are handed to urllib.urlencode; a body of None makes it a GET.
http_request(path, query, body) ==
    [t |-> "http", url |-> BaseUrl \o path.v \o <<"?">>,
     query |-> query, post_data |-> body]

\* check_error with `if "error" in response:` for `if response.get("error"):`
check_error_if_present(response) ==
    IF response.t # "dict" THEN Raise("AttributeError", <<>>)
    ELSE IF "error" \notin DOMAIN response.v THEN Return(response)
    ELSE LET error == response.v["error"]
         IN  IF error.t # "dict" THEN Raise("TypeError", <<>>)
             ELSE IF {"type", "message"} \subseteq DOMAIN error.v
             THEN Raise("Exception", <<error.v["type"], error.v["message"]>>)
             ELSE Raise("KeyError", <<>>)

\* lines 132-135: response.get("error") and what follows from it
check_error(response) ==
    IF response.t # "dict" THEN Raise("AttributeError", <<>>)
    ELSE LET error == IF "error" \in DOMAIN response.v
                      THEN response.v["error"] ELSE None
         IN  IF ~Truthy(error) THEN Return(response)
             ELSE IF error.t # "dict" THEN Raise("TypeError", <<>>)
             ELSE IF {"type", "message"} \subseteq DOMAIN error.v
             THEN Raise("Exception", <<error.v["type"], error.v["message"]>>)
             ELSE Raise("KeyError", <<>>)

\* lines 126-131: what the network hands back is the environment's choice:
\* urlopen fails, the body is no JSON, or it decodes to a value
read_response(net) ==
    IF net.t \in {"IOError", "ValueError"} THEN Raise(net.t, <<>>)
    ELSE check_error(net)

\* lines 119-135.  The effects of one call: the two parameter maps after
\* line 124, the HTTP request issued (None if none was), what the network
\* answered, and the outcome.
request(token, path, args, post_args, net) ==
    LET att == attach_token(token, default_args(args), post_args)
    IN  IF path.t # "str"
        THEN \* "https://graph.facebook.com/" + path raises before urlopen
             [req |-> PyTuple(<<path, args, post_args>>),
              query |-> att.query, body |-> att.body,
              sent |-> None, net |-> None,
              result |-> Raise("TypeError", <<>>)]
        ELSE [req |-> PyTuple(<<path, args, post_args>>),
              query |-> att.query, body |-> att.body,
              sent |-> http_request(path, att.query, att.body), net |-> net,
              result |-> read_response(net)]

\* a call that raised before it reached request
no_request(outcome) ==
    [req |-> None, query |-> None, body |-> None, sent |-> None, net |-> None,
     result |-> outcome]

---------------------------------------------------------------------------
(* GraphAPI.get_object and GraphAPI.get_connection                         *)

\* line 80
is_collection(ids) == isinstance(ids, "list") \/ isinstance(ids, "set")

\* is_invalid_id that lets an integer id through, as the docstring has it
is_invalid_id_but_int(ids) == ~isinstance(ids, "str") /\ ~isinstance(ids, "int")

\* line 82
is_invalid_id(ids) == ~isinstance(ids, "str")

\* line 81: ",".join(ids) raises TypeError unless every item is a str
join_ids(items) ==
    IF \E i \in 1..Len(items) : ~isinstance(items[i], "str")
    THEN Raise("TypeError", <<>>)
    ELSE Return(PyStr(JoinSeq(Comma, [i \in 1..Len(items) |-> items[i].v])))

\* lines 80-84.  items is the order in which ids is iterated: the list
\* itself, or for a set the order the interpreter happens to use.
get_object(token, ids, items, args, net) ==
    IF is_collection(ids)
    THEN LET joined == join_ids(items)
         IN  IF joined.kind = "raise" THEN no_request(joined)
             ELSE request(token, ids, SetItem(args, "ids", joined.value),
                          None, net)
    ELSE IF is_invalid_id(ids)
    THEN no_request(Raise("Exception", <<PyStr(InvalidIdType)>>))
    ELSE request(token, ids, args, None, net)

\* line 100: conn_id + "/" + connection_name raises unless both are str
get_connection(token, conn_id, connection_name, args, net) ==
    IF ~isinstance(conn_id, "str") \/ ~isinstance(connection_name, "str")
    THEN no_request(Raise("TypeError", <<>>))
    ELSE request(token, PyStr(conn_id.v \o <<"/">> \o connection_name.v),
                 args, None, net)

---------------------------------------------------------------------------
(* The values the calls are made with.                                     *)

\* all sequences over S of the lengths in lens
SeqsOf(S, lens) == UNION {[1..n -> S] : n \in lens}

\* the orders in which a set can be iterated
Orders(S) == {s \in [1..Cardinality(S) -> S] : {s[i] : i \in 1..Len(s)} = S}

IdChars == {"1", "2"}
StrIds == {PyStr(s) : s \in SeqsOf(IdChars, 1..MaxIdLen)}
IntIds == {PyInt(n) : n \in 1..MaxIntId}
ObjectIds == StrIds \cup IntIds

IdLists == {PyList(s) : s \in SeqsOf(ObjectIds, 0..MaxIds)}
IdSets == {PySet(S) : S \in {T \in SUBSET ObjectIds : Cardinality(T) <= MaxIds}}
\* arguments that are neither a str nor a list nor a set
OtherIds == IntIds \cup {None, PyBool(TRUE), PyTuple(<<>>), PyDict(EmptyMap)}

Tokens == {None, PyStr(<<>>), PyStr(<<"t">>)}

OptionMaps == {PyDict(EmptyMap), PyDict([k \in {"limit"} |-> PyStr(<<"5">>)])}
QueryMaps == OptionMaps \cup {None, PyDict([k \in {"access_token"} |-> PyStr(<<"o">>)])}
BodyMaps == {None, PyDict(EmptyMap),
             PyDict([k \in {"message"} |-> PyStr(<<"h", "i">>)]),
             PyDict([k \in {"access_token"} |-> PyStr(<<"o">>)])}

ConnectionNames == {PyStr(<<"f", "e", "e", "d">>), PyStr(<<"l", "i", "k", "e", "s">>)}

ErrorTypes == {PyStr(<<"O", "A", "u", "t", "h">>), PyStr(<<"G", "r", "a", "p", "h">>)}
ErrorMessages == {PyStr(<<"I", "n", "v", "a", "l", "i", "d">>), PyStr(<<"U", "n", "k", "n", "o", "w", "n">>)}
ErrorObjects ==
    {PyDict([k \in {"type", "message"} |-> IF k = "type" THEN ty ELSE msg]) :
        ty \in ErrorTypes, msg \in ErrorMessages}
\* error fields that carry no type or no message
OddErrors ==
    {None, PyDict(EmptyMap), PyStr(<<>>), PyStr(<<"x">>), PyBool(FALSE),
     PyDict([k \in {"type"} |-> PyStr(<<"O", "A", "u", "t", "h">>)])}
Payloads ==
    {PyDict([k \in {"id"} |-> PyStr(<<"1">>)]),
     PyDict([k \in {"data"} |-> PyList(<<>>)]),
     PyDict(EmptyMap)}
\* what the network can hand back to one request
NetOutcomes ==
    Payloads
    \cup {PyDict([k \in {"error"} |-> e]) : e \in ErrorObjects \cup OddErrors}
    \cup {PyDict([k \in {"error", "data"} |->
                    IF k = "error" THEN e ELSE PyList(<<>>)]) : e \in ErrorObjects}
    \cup {PyList(<<>>), [t |-> "IOError"], [t |-> "ValueError"]}

---------------------------------------------------------------------------
(* The client: one call per behaviour, on a client constructed with any    *)
(* access token (line 69).                                                 *)

call_record(op, in, eff) ==
    [op |-> op, in |-> in, req |-> eff.req, query |-> eff.query,
     body |-> eff.body, sent |-> eff.sent, net |-> eff.net,
     result |-> eff.result]

Idle == call_record("idle", <<>>, no_request(Return(None)))

NotCalled == [called |-> FALSE, in |-> <<>>, result |-> Return(None)]

UserIdle ==
    /\ likes = <<>> /\ friend_likes = <<>>
    /\ common = [ab |-> NotCalled, ba |-> NotCalled]
    /\ wall = <<>> /\ filtered = NotCalled

Init ==
    /\ access_token \in Tokens
    /\ io = Idle
    /\ UserIdle

CallRequest ==
    /\ io.op = "idle"
    /\ \E path \in StrIds, args \in QueryMaps, post_args \in BodyMaps,
          net \in NetOutcomes :
         io' = call_record("request", <<path, args, post_args>>,
                           request(access_token, path, args, post_args, net))
    /\ UNCHANGED <<access_token, likes, friend_likes, common, wall, filtered>>

CallGetObject ==
    /\ io.op = "idle"
    /\ \E ids \in StrIds \cup IdLists \cup IdSets \cup OtherIds,
          args \in OptionMaps, net \in NetOutcomes :
         \E items \in (IF ids.t = "list" THEN {ids.v}
                       ELSE IF ids.t = "set" THEN Orders(ids.v) ELSE {<<>>}) :
            io' = call_record("get_object", <<ids, args>>,
                              get_object(access_token, ids, items, args, net))
    /\ UNCHANGED <<access_token, likes, friend_likes, common, wall, filtered>>

CallGetConnection ==
    /\ io.op = "idle"
    /\ \E conn_id \in ObjectIds, connection_name \in ConnectionNames,
          args \in OptionMaps, net \in NetOutcomes :
         io' = call_record("get_connection", <<conn_id, connection_name, args>>,
                           get_connection(access_token, conn_id,
                                          connection_name, args, net))
    /\ UNCHANGED <<access_token, likes, friend_likes, common, wall, filtered>>

Next == CallRequest \/ CallGetObject \/ CallGetConnection

Spec == Init /\ [][Next]_vars

---------------------------------------------------------------------------
(* Properties of the client.                                               *)

TokenKey == "access_token"
HasKey(d, k) == d.t = "dict" /\ k \in DOMAIN d.v
\* d2 is d1 with x stored under k and nothing else changed
IsWith(d2, d1, k, x) ==
    /\ d2.t = "dict" /\ d1.t = "dict"
    /\ DOMAIN d2.v = DOMAIN d1.v \cup {k}
    /\ d2.v[k] = x
    /\ \A key \in DOMAIN d1.v \ {k} : d2.v[key] = d1.v[key]
\* the query parameters a call starts from: the caller's, or none
GivenQuery(args) ==
    IF args.t = "dict" /\ DOMAIN args.v # {} THEN args ELSE PyDict(EmptyMap)
CredentialSet == access_token.t = "str" /\ Len(access_token.v) > 0
ReachedRequest == io.req.t = "tuple"

\* C1: on a client whose credential is set, request attaches access_token to
\* the body parameters when a body is given (an empty one included) and
\* leaves the query parameters as they were, and attaches it to the query
\* parameters when no body is given; it is in both maps only if the caller
\* had put it in the other one; with no credential set both maps are left
\* as given.  The HTTP request issued carries these two maps.
C1_TokenInExactlyOneMap ==
    ReachedRequest =>
        LET args == io.req.v[2]
            post_args == io.req.v[3]
        IN  /\ (CredentialSet /\ post_args.t = "dict") =>
                 /\ IsWith(io.body, post_args, TokenKey, access_token)
                 /\ io.query = GivenQuery(args)
            /\ (CredentialSet /\ post_args.t = "NoneType") =>
                 /\ IsWith(io.query, GivenQuery(args), TokenKey, access_token)
                 /\ io.body = None
            /\ ~CredentialSet =>
                 /\ io.query = GivenQuery(args)
                 /\ io.body = post_args
            /\ (HasKey(io.query, TokenKey) /\ HasKey(io.body, TokenKey)) =>
                 (HasKey(args, TokenKey) \/ HasKey(post_args, TokenKey))
            /\ io.sent.t = "http" =>
                 (io.sent.query = io.query /\ io.sent.post_data = io.body)

\* C1 witness: a call with an empty body map on a client with a credential:
\* the token is in the body and not in the query
C1_Witness ==
    /\ io.op = "request"
    /\ CredentialSet
    /\ io.req.v[3] = PyDict(EmptyMap)
    /\ HasKey(io.body, TokenKey)
    /\ ~HasKey(io.query, TokenKey)
    /\ io.sent.t = "http"

IsObject(x) == x.t = "dict"
ErrorField(x) == x.v["error"]
CarriesTypeAndMessage(e) == e.t = "dict" /\ {"type", "message"} \subseteq DOMAIN e.v
Answered == io.sent.t = "http" /\ io.net.t \notin {"IOError", "ValueError"}

\* C2 as claimed: every decoded response object that contains an error field
\* makes request fail with the type and message of that field, and every
\* decoded response object without one is returned unchanged
C2_AsClaimed ==
    (Answered /\ IsObject(io.net)) =>
        IF HasKey(io.net, "error")
        THEN /\ io.result.kind = "raise"
             /\ io.result.exc = "Exception"
             /\ CarriesTypeAndMessage(ErrorField(io.net))
             /\ io.result.value =
                  PyTuple(<<ErrorField(io.net).v["type"],
                            ErrorField(io.net).v["message"]>>)
        ELSE io.result = Return(io.net)

\* C2 amended: a decoded response object whose error field is an object with
\* a type and a message makes request fail with exactly that type and
\* message; a decoded response object with no error field, or whose error
\* field is null, false, an empty string or an empty object, is returned
\* unchanged
C2_ErrorObjectRaises ==
    (Answered /\ IsObject(io.net)) =>
        /\ (HasKey(io.net, "error") /\ CarriesTypeAndMessage(ErrorField(io.net))) =>
             /\ io.result.kind = "raise"
             /\ io.result.exc = "Exception"
             /\ io.result.value =
                  PyTuple(<<ErrorField(io.net).v["type"],
                            ErrorField(io.net).v["message"]>>)
        /\ (~HasKey(io.net, "error") \/ ~Truthy(ErrorField(io.net))) =>
             io.result = Return(io.net)

\* C2 witness: an error object was answered and its type and message raised
C2_Witness ==
    /\ io.op = "request"
    /\ Answered
    /\ HasKey(io.net, "error")
    /\ CarriesTypeAndMessage(ErrorField(io.net))
    /\ io.result.kind = "raise"
    /\ io.result.value.v[1] \in ErrorTypes
    /\ io.result.value.v[2] \in ErrorMessages

RECURSIVE Split(_, _)
\* s.split(sep)
Split(s, sep) ==
    IF \A i \in 1..Len(s) : s[i] # sep THEN <<s>>
    ELSE LET i == CHOOSE j \in 1..Len(s) :
                      s[j] = sep /\ \A k \in 1..(j - 1) : s[k] # sep
         IN  <<SubSeq(s, 1, i - 1)>> \o Split(SubSeq(s, i + 1, Len(s)), sep)

Digits == <<"1", "2", "3", "4", "5", "6", "7", "8", "9">>
\* an object id as it is written in a request
IdText(id) == IF id.t = "int" THEN <<Digits[id.v]>> ELSE id.v

\* C4 as claimed: for a list or set of ids, the options get_object passes to
\* request hold under "ids" the comma-separated ids, each once, a list's in
\* the order given
C4_AsClaimed ==
    (io.op = "get_object" /\ io.in[1].t \in {"list", "set"}) =>
        /\ ReachedRequest
        /\ HasKey(io.req.v[2], "ids")
        /\ LET joined == io.req.v[2].v["ids"]
               parts == IF Len(joined.v) = 0 THEN <<>> ELSE Split(joined.v, Comma)
           IN  /\ joined.t = "str"
               /\ IF io.in[1].t = "list"
                  THEN parts = [i \in 1..Len(io.in[1].v) |-> IdText(io.in[1].v[i])]
                  ELSE /\ Len(parts) = Cardinality(io.in[1].v)
                       /\ {parts[i] : i \in 1..Len(parts)} =
                            {IdText(id) : id \in io.in[1].v}

---------------------------------------------------------------------------
(* User.intersect                                                          *)

\* set(l) of a list
set(l) == {l[i] : i \in 1..Len(l)}

\* intersect with | for &
intersect_union(likes1, likes2) == set(likes1) \cup set(likes2)

\* line 197: set(likes1) & set(likes2)
intersect(likes1, likes2) == set(likes1) \cap set(likes2)

LikeLists == SeqsOf(1..MaxLikeId, 0..MaxLikes)

\* two profiles as constructed (line 176): any two lists of like ids,
\* duplicates included; the friend may be the user itself
InitLikes ==
    /\ likes \in LikeLists
    /\ friend_likes \in LikeLists
    /\ common = [ab |-> NotCalled, ba |-> NotCalled]
    /\ access_token = None /\ io = Idle
    /\ wall = <<>> /\ filtered = NotCalled

\* lines 195-197, self.intersect(friend): list(...) lists the set in an
\* order the interpreter chooses
Intersect ==
    /\ \E order \in Orders(intersect(likes, friend_likes)) :
         common' = [common EXCEPT !.ab =
                      [called |-> TRUE, in |-> <<likes, friend_likes>>,
                       result |-> Return(PyList(order))]]
    /\ UNCHANGED <<access_token, io, likes, friend_likes, wall, filtered>>

\* lines 195-197, friend.intersect(self)
IntersectFriend ==
    /\ \E order \in Orders(intersect(friend_likes, likes)) :
         common' = [common EXCEPT !.ba =
                      [called |-> TRUE, in |-> <<friend_likes, likes>>,
                       result |-> Return(PyList(order))]]
    /\ UNCHANGED <<access_token, io, likes, friend_likes, wall, filtered>>

NextLikes == Intersect \/ IntersectFriend

SpecLikes == InitLikes /\ [][NextLikes]_vars

Occurs(x, l) == \E i \in 1..Len(l) : l[i] = x
NoRepeats(l) == \A i, j \in 1..Len(l) : l[i] = l[j] => i = j
Listed(r) == {r.result.value.v[i] : i \in 1..Len(r.result.value.v)}
\* r is a returned list holding exactly the ids of S, each once
ListsExactly(r, S) ==
    /\ r.result.kind = "return"
    /\ r.result.value.t = "list"
    /\ NoRepeats(r.result.value.v)
    /\ Listed(r) = S

\* C9: intersect(A, B) and intersect(B, A) hold the same ids; the result
\* holds exactly the ids that occur in both like lists, each once also when a
\* list repeats an id; a profile intersected with itself gives all its ids,
\* each once; and no call changes either profile's like list
C9_IntersectLikes ==
    /\ [](/\ common.ab.called =>
               ListsExactly(common.ab,
                   {x \in 1..MaxLikeId : Occurs(x, likes) /\ Occurs(x, friend_likes)})
          /\ common.ba.called =>
               ListsExactly(common.ba,
                   {x \in 1..MaxLikeId : Occurs(x, likes) /\ Occurs(x, friend_likes)})
          /\ (common.ab.called /\ common.ba.called) =>
               Listed(common.ab) = Listed(common.ba)
          /\ (common.ab.called /\ friend_likes = likes) =>
               ListsExactly(common.ab, {x \in 1..MaxLikeId : Occurs(x, likes)}))
    /\ [][likes' = likes /\ friend_likes' = friend_likes]_vars

\* C9 witness: both directions were called on two different lists, one of
\* which repeats an id that the other holds too
C9_Witness ==
    /\ common.ab.called /\ common.ba.called
    /\ ~NoRepeats(likes)
    /\ friend_likes # likes
    /\ Listed(common.ab) # {}
    /\ Len(common.ab.result.value.v) < Len(likes)

---------------------------------------------------------------------------
(* User.filter_wall                                                        *)

Datetime(n) == [t |-> "datetime", v |-> n]

\* a == b on two Python values: numbers (bool included) compare by value,
\* values of one type by content, anything else is unequal
py_eq(a, b) ==
    LET num(x) == IF x.t = "bool" THEN (IF x.v THEN 1 ELSE 0) ELSE x.v
    IN  IF a.t \in {"int", "bool"} /\ b.t \in {"int", "bool"} THEN num(a) = num(b)
        ELSE a.t = b.t /\ a.v = b.v

\* A list comprehension [post for post in posts if test] is SelectSeq.

\* lines 224-225
filter_time_start(posts, time_start) ==
    IF isinstance(time_start, "datetime")
    THEN SelectSeq(posts, LAMBDA post : post["created_time"].v > time_start.v)
    ELSE posts

\* lines 226-227
filter_time_end(posts, time_end) ==
    IF isinstance(time_end, "datetime")
    THEN SelectSeq(posts, LAMBDA post : post["created_time"].v < time_end.v)
    ELSE posts

\* lines 229-232
filter_author(posts, author) ==
    IF isinstance(author, "int")
    THEN SelectSeq(posts, LAMBDA post : py_eq(post["from"].id, author))
    ELSE IF isinstance(author, "str")
    THEN SelectSeq(posts, LAMBDA post : py_eq(post["from"].name, author))
    ELSE posts

\* post[key] raises KeyError on the first post that has no such key
Missing(posts, key) == \E i \in 1..Len(posts) : key \notin DOMAIN posts[i]

\* lines 234-237: the second branch tests author, not liked_by
filter_liked_by(posts, author, liked_by) ==
    IF isinstance(liked_by, "int")
    THEN IF Missing(posts, "likes") THEN Raise("KeyError", <<>>)
         ELSE Return(SelectSeq(posts, LAMBDA post :
                \E i \in 1..Len(post["likes"].data) :
                    py_eq(post["likes"].data[i].id, liked_by)))
    ELSE IF isinstance(author, "str")
    THEN IF Missing(posts, "likes") THEN Raise("KeyError", <<>>)
         ELSE Return(SelectSeq(posts, LAMBDA post :
                \E i \in 1..Len(post["likes"].data) :
                    py_eq(post["likes"].data[i].name, liked_by)))
    ELSE Return(posts)

\* lines 239-242: the branches test liked_by and author, not commented_by
filter_commented_by(posts, author, liked_by, commented_by) ==
    IF isinstance(liked_by, "int")
    THEN IF Missing(posts, "comments") THEN Raise("KeyError", <<>>)
         ELSE Return(SelectSeq(posts, LAMBDA post :
                \E i \in 1..Len(post["comments"].data) :
                    py_eq(post["comments"].data[i].from.id, commented_by)))
    ELSE IF isinstance(author, "str")
    THEN IF Missing(posts, "comments") THEN Raise("KeyError", <<>>)
         ELSE Return(SelectSeq(posts, LAMBDA post :
                \E i \in 1..Len(post["comments"].data) :
                    py_eq(post["comments"].data[i].from.name, commented_by)))
    ELSE Return(posts)

\* lines 222-244
filter_wall(self_wall, time_start, time_end, author, liked_by, commented_by) ==
    LET timed == filter_time_end(filter_time_start(self_wall, time_start), time_end)
        liked == filter_liked_by(filter_author(timed, author), author, liked_by)
    IN  IF liked.kind = "raise" THEN liked
        ELSE LET commented ==
                   filter_commented_by(liked.value, author, liked_by, commented_by)
             IN  IF commented.kind = "raise" THEN commented
                 ELSE Return(PyList(commented.value))

\* the people that posts, likes and comments name
People ==
    {[id |-> PyInt(1), name |-> PyStr(<<"a">>)],
     [id |-> PyInt(2), name |-> PyStr(<<"b">>)]}

LikesFields == {[data |-> d] : d \in SeqsOf(People, 0..MaxData)}
CommentsFields ==
    {[data |-> d] : d \in SeqsOf({[from |-> u] : u \in People}, 0..MaxData)}

\* a wall post as line 174 keeps it: the fields of import_fields that the
\* feed entry has; likes and comments are missing from an entry nobody liked
\* or commented on.  message is never read and left out.
Posts ==
    {[k \in {"created_time", "from"} \cup opt |->
        CASE k = "created_time" -> Datetime(n)
          [] k = "from" -> u
          [] k = "likes" -> l
          [] k = "comments" -> c] :
        n \in 1..MaxTime, u \in People, l \in LikesFields, c \in CommentsFields,
        opt \in SUBSET {"likes", "comments"}}

\* the default of every filter argument (line 199)
Off == PyBool(FALSE)
TimeFilters == {Off} \cup {Datetime(n) : n \in 1..MaxTime}
PersonFilters == {Off} \cup {u.id : u \in People} \cup {u.name : u \in People}

\* a profile as constructed (lines 179-184): any wall
InitWall ==
    /\ wall \in SeqsOf(Posts, 0..MaxWall)
    /\ filtered = NotCalled
    /\ access_token = None /\ io = Idle
    /\ likes = <<>> /\ friend_likes = <<>>
    /\ common = [ab |-> NotCalled, ba |-> NotCalled]

FilterWall ==
    /\ ~filtered.called
    /\ \E time_start \in TimeFilters, time_end \in TimeFilters,
          author \in PersonFilters, liked_by \in PersonFilters,
          commented_by \in PersonFilters :
         filtered' =
            [called |-> TRUE,
             in |-> <<time_start, time_end, author, liked_by, commented_by>>,
             result |-> filter_wall(wall, time_start, time_end, author,
                                    liked_by, commented_by)]
    /\ UNCHANGED <<access_token, io, likes, friend_likes, common, wall>>

NextWall == FilterWall

SpecWall == InitWall /\ [][NextWall]_vars

---------------------------------------------------------------------------
(* Properties of filter_wall, as the specification states them.            *)

ArgTimeStart == filtered.in[1]
ArgTimeEnd == filtered.in[2]
ArgAuthor == filtered.in[3]
ArgLikedBy == filtered.in[4]
ArgCommentedBy == filtered.in[5]

\* the call left every filter but those of keep at its default
OnlySet(keep) == \A i \in (1..5) \ keep : filtered.in[i] = Off

\* who matches person: by id when who is an integer, by name when a string
Matches(person, who) ==
    IF who.t = "int" THEN person.id = who ELSE person.name = who
HasLikeOf(post, who) ==
    /\ "likes" \in DOMAIN post
    /\ \E i \in 1..Len(post["likes"].data) : Matches(post["likes"].data[i], who)
HasCommentOf(post, who) ==
    /\ "comments" \in DOMAIN post
    /\ \E i \in 1..Len(post["comments"].data) :
           Matches(post["comments"].data[i].from, who)

Returned(posts) == filtered.result = Return(PyList(posts))

RECURSIVE IsSubsequence(_, _)
\* s can be had from l by dropping entries
IsSubsequence(s, l) ==
    IF Len(s) = 0 THEN TRUE
    ELSE IF Len(l) = 0 THEN FALSE
    ELSE IF s[1] = l[1] THEN IsSubsequence(Tail(s), Tail(l))
    ELSE IsSubsequence(s, Tail(l))

\* C5 as claimed: filter_wall with every filter left at its default returns
\* the wall unchanged
C5_AsClaimed ==
    (filtered.called /\ OnlySet({})) => Returned(wall)

\* C6 as claimed: with only liked_by set, filter_wall returns exactly the
\* posts with a like of liked_by (by id for an integer, by name for a
\* string); and whatever the other arguments, a post is returned only if it
\* has such a like
C6_AsClaimed ==
    (filtered.called /\ ArgLikedBy # Off) =>
        /\ OnlySet({4}) =>
             Returned(SelectSeq(wall, LAMBDA post : HasLikeOf(post, ArgLikedBy)))
        /\ filtered.result.kind = "return" =>
             \A i \in 1..Len(filtered.result.value.v) :
                 HasLikeOf(filtered.result.value.v[i], ArgLikedBy)

\* C7 as claimed: with only commented_by set, filter_wall returns exactly the
\* posts with a comment by commented_by (by id for an integer, by name for a
\* string); and whatever liked_by and author are, a post is returned only if
\* it has such a comment
C7_AsClaimed ==
    (filtered.called /\ ArgCommentedBy # Off) =>
        /\ OnlySet({5}) =>
             Returned(SelectSeq(wall, LAMBDA post : HasCommentOf(post, ArgCommentedBy)))
        /\ filtered.result.kind = "return" =>
             \A i \in 1..Len(filtered.result.value.v) :
                 HasCommentOf(filtered.result.value.v[i], ArgCommentedBy)

After(T) == SelectSeq(wall, LAMBDA post : post["created_time"].v > T.v)
Before(T) == SelectSeq(wall, LAMBDA post : post["created_time"].v < T.v)

\* C8 as claimed: with only time_start = T1, filter_wall returns exactly the
\* posts created strictly after T1; with only time_end = T2, exactly those
\* created strictly before T2; with both, the posts that are in both results
C8_AsClaimed ==
    filtered.called =>
        /\ (OnlySet({1}) /\ ArgTimeStart # Off) => Returned(After(ArgTimeStart))
        /\ (OnlySet({2}) /\ ArgTimeEnd # Off) => Returned(Before(ArgTimeEnd))
        /\ (OnlySet({1, 2}) /\ ArgTimeStart # Off /\ ArgTimeEnd # Off) =>
             Returned(SelectSeq(After(ArgTimeStart),
                        LAMBDA post : post["created_time"].v < ArgTimeEnd.v))

\* C10 as claimed: whatever the filter arguments, filter_wall does not fail,
\* also on posts without a likes or a comments field, and returns a
\* subsequence of the wall, in the wall's order
C10_AsClaimed ==
    filtered.called =>
        /\ filtered.result.kind = "return"
        /\ filtered.result.value.t = "list"
        /\ IsSubsequence(filtered.result.value.v, wall)

=============================================================================
